---- MODULE Spec2Model ----
(***************************************************************************)
(* A model of monitor.py: the TrafficHistory sliding-window log (add,      *)
(* _prune, get_rates) and the counters kept by on_message and read by      *)
(* print_report.                                                           *)
(*                                                                         *)
(* Timestamps are time.time() floats.  They are modelled as a whole number *)
(* of ticks, TicksPerSec ticks to the second, so that several distinct     *)
(* timestamps truncate to the same integer second, as int(ts) does.        *)
(* A bucket [ts_int, msgs, bytes] of the deque is the tuple <<s, m, b>>.   *)
(* A rate msgs / seconds is kept as the pair of the sum and its divisor.   *)
(***************************************************************************)
EXTENDS Integers, Sequences, FiniteSets, TLC

\* ---------------------------------------------------------------- bounds
TicksPerSec == 2
MaxSecond == 4
MaxSize == 1
MaxAdds == 4
\* TrafficHistory(max_seconds): the retention window, scaled down from 900.
max_seconds == 2
\* Threads that run on_message, calls of on_message, report cycles.
NumIngest == 2
MaxMsgs == 2
MaxReports == 1
\* Calls of on_message when the calls run one at a time.
MaxSeqMsgs == 3
MaxSeqReports == 2
\* The largest reading of time.time(), in ticks, by the program with two
\* ingest threads and with its calls one at a time; by the program with its
\* one ingest thread; by the program under the fair scheduler.
MaxProgTick == 2
MaxOneTick == 6
MaxReportTick == 8
MaxFairTick == 1
\* Calls of on_message by the program with its one ingest thread.
MaxOneMsgs == 2
\* Key extraction: the length of a topic and the largest args.detail.
MaxTopicLen == 5
MaxDetail == 2

\* Timestamps range over the ticks of the seconds 0..MaxSecond.
Seconds == 0..MaxSecond
Ticks == 0..((MaxSecond + 1) * TicksPerSec - 1)
Sizes == 0..MaxSize
\* The interval list get_rates is called with (the program's is [60, 300, 900]
\* for a retention of 900): every window from 1 second up to max_seconds + 1
\* seconds, the last one larger than the retention window.
Intervals == [i \in 1..(max_seconds + 1) |-> i]

\* ---------------------------------------------------------------- state
VARIABLES
    history,    \* TrafficHistory.history: the deque of buckets <<s, m, b>>
    rates,      \* the list the last get_rates returned: [seconds, msgs, bytes]
    lastCall,   \* the last call on the history: its int(ts) or int(now), its size,
                \* the deque length before it, and (get_rates) whether now was
                \* not earlier than the latest add's timestamp
    nAdds,      \* number of add calls so far
    lastTs,     \* timestamp (ticks) of the latest add call
    mono,       \* TRUE while every add had a timestamp >= the one before it
    evMsgs,     \* evMsgs[s]: number of events ever added with int(ts) = s
    evBytes,    \* evBytes[s]: total size of the events ever added with int(ts) = s
    maxNow,     \* largest int(now) of the get_rates calls so far
    rewound,    \* TRUE iff an earlier get_rates call had a larger int(now) than the last
    \* the program: on_message threads and the print_report loop
    stats_lock,     \* holder of stats_lock, NoThread when free
    hist_lock,      \* holder of traffic_history.lock, NoThread when free
    topic_stats,    \* the dict, in insertion order: [key, count, bytes, last_seen]
    total_messages,
    total_bytes,
    pc,             \* pc[t]: where on_message stands in thread t
    msg,            \* msg[t]: the locals device, payload_size, now of the call
    reg,            \* reg[t]: the value loaded by the += in progress
    rpc,            \* where the main thread stands, in print_report or outside it
    rep,            \* the locals of print_report
    nReports,       \* report cycles completed, counted up to the largest bound
    events,         \* the on_message calls made so far: [key, size, ts], and
                    \* stored, the rank of the call among those that have
                    \* run line 126 (0 before)
    hdone,          \* ids of the events whose traffic_history.add has returned
    doneAtInvoke,   \* hdone when the report's get_rates took the lock
    hmax,           \* largest second any call on the history was made with
    quiet,          \* during a report: TRUE iff no on_message call was in
                    \* progress when it started and none has started since
    overlap,        \* TRUE iff two calls for one key were in progress at once
    prev,           \* what the last completed report captured and printed;
                    \* NoReport once a record step has changed the table since
    \* single calls
    topic,          \* msg.topic of the last key extraction, a string of characters
    detail,         \* args.detail of the last key extraction
    device,         \* the display key it computed
    asked,          \* the intervals argument of the last get_rates call
    raised,         \* the exception the last get_rates call raised, "" if none
    \* the command line
    ignore_bridge,  \* args.ignore_bridge
    ignored         \* number of on_message calls that returned at line 107

histGhost == <<lastCall, nAdds, lastTs, mono, evMsgs, evBytes, maxNow, rewound>>
progVars == <<stats_lock, hist_lock, topic_stats, total_messages, total_bytes,
              pc, msg, reg, rpc, rep, nReports, events, hdone, doneAtInvoke, hmax,
              quiet, overlap>>
keyVars == <<topic, detail, device>>
callVars == <<asked, raised>>
argVars == <<ignore_bridge, ignored>>
pureVars == <<keyVars, callVars, argVars>>
vars == <<history, rates, histGhost, progVars, prev, pureVars>>

Ingest == 1..NumIngest
NoThread == 0
Reporter == NumIngest + 1
NoMsg == [device |-> << >>, size |-> 0, now |-> 0, id |-> 0]
\* The locals of print_report; seen and cnt hold data['last_seen'] and
\* data['count'] of the row being printed, snap the values of the table
\* when the totals were captured.
NoReport == [now |-> 0, max_rows |-> 0, current_stats |-> << >>, total_msg |-> 0,
             total_sz |-> 0, snap |-> << >>, keys |-> << >>, rows |-> << >>,
             seen |-> 0, cnt |-> 0, printed |-> << >>]

\* ------------------------------------------------------- pure operators
\* int(ts): truncation toward zero of a timestamp given in ticks.
int(ts) == IF ts >= 0 THEN ts \div TicksPerSec ELSE -((-ts) \div TicksPerSec)

Max(a, b) == IF a >= b THEN a ELSE b

\* _prune with "if" in place of "while": at most one bucket is popped.
prune_once(h, now_int) ==
    IF h # << >> /\ h[1][1] < now_int - max_seconds THEN Tail(h) ELSE h

\* _prune with a cutoff one second too early.
RECURSIVE prune_late(_, _)
prune_late(h, now_int) ==
    IF h # << >> /\ h[1][1] < now_int - max_seconds - 1
    THEN prune_late(Tail(h), now_int)
    ELSE h

\* _prune: pop buckets from the left while the leftmost is older than the cutoff.
RECURSIVE _prune(_, _)
_prune(h, now_int) ==
    IF h # << >> /\ h[1][1] < now_int - max_seconds
    THEN _prune(Tail(h), now_int)
    ELSE h

\* add comparing the tail's second with the float ts: it never matches, so
\* every event is appended as a bucket of its own.
record_nocoalesce(h, ts_int, size) == Append(h, <<ts_int, 1, size>>)

\* Line 59: self.history and self.history[-1][0] == ts_int
TailMatches(h, ts_int) == h # << >> /\ h[Len(h)][1] = ts_int

\* Line 60: self.history[-1][1] += 1
IncMsgs(h) == IF h = << >> THEN h ELSE [h EXCEPT ![Len(h)] = <<@[1], @[2] + 1, @[3]>>]

\* Line 61: self.history[-1][2] += size
IncBytes(h, size) == IF h = << >> THEN h ELSE [h EXCEPT ![Len(h)] = <<@[1], @[2], @[3] + size>>]

\* add folding an event of an earlier second into the tail bucket instead
\* of appending a bucket for it.
record_fold_earlier(h, ts_int, size) ==
    IF h # << >> /\ h[Len(h)][1] >= ts_int
    THEN IncBytes(IncMsgs(h), size)
    ELSE Append(h, <<ts_int, 1, size>>)

\* Lines 59-63 of add: coalesce into the rightmost bucket or append a new one.
record(h, ts_int, size) ==
    IF TailMatches(h, ts_int)
    THEN IncBytes(IncMsgs(h), size)
    ELSE Append(h, <<ts_int, 1, size>>)

\* add without its call of _prune.
add_noprune(h, ts, size) == record(h, int(ts), size)

\* The deque after add(ts, size).
add(h, ts, size) == _prune(record(h, int(ts), size), int(ts))

\* The sum with h[0] >= cutoff in place of h[0] > cutoff.
RECURSIVE SumIfGeq(_, _, _)
SumIfGeq(h, k, cutoff) ==
    IF h = << >> THEN 0
    ELSE (IF h[1][1] >= cutoff THEN h[1][k] ELSE 0) + SumIfGeq(Tail(h), k, cutoff)

\* sum(h[k] for h in self.history if h[0] > cutoff), k = 2 (msgs) or 3 (bytes)
RECURSIVE SumIf(_, _, _)
SumIf(h, k, cutoff) ==
    IF h = << >> THEN 0
    ELSE (IF h[1][1] > cutoff THEN h[1][k] ELSE 0) + SumIf(Tail(h), k, cutoff)

\* The list get_rates returns over the pruned deque h.
get_rates(h, now_int, intervals) ==
    [i \in 1..Len(intervals) |->
        [seconds |-> intervals[i],
         msgs    |-> SumIf(h, 2, now_int - intervals[i]),
         bytes   |-> SumIf(h, 3, now_int - intervals[i])]]

\* Topics are strings over these characters, "/" the separator.
Chars == {"a", "b", "c", "/"}
Topics == UNION {[1..n -> Chars] : n \in 0..MaxTopicLen}
Details == 0..MaxDetail

Min(a, b) == IF a <= b THEN a ELSE b

\* Line 110: topic.split("/"), the list of the segments between separators.
RECURSIVE split(_)
split(str) ==
    IF \E i \in 1..Len(str) : str[i] = "/"
    THEN LET i == CHOOSE j \in 1..Len(str) :
                    str[j] = "/" /\ \A k \in 1..(j - 1) : str[k] # "/"
         IN <<SubSeq(str, 1, i - 1)>> \o split(SubSeq(str, i + 1, Len(str)))
    ELSE <<str>>

\* Line 114: "/".join(parts)
RECURSIVE join(_)
join(parts) ==
    IF parts = << >> THEN << >>
    ELSE IF Len(parts) = 1 THEN parts[1]
    ELSE parts[1] \o <<"/">> \o join(Tail(parts))

\* The key without the fallback of lines 115-116.
extract_nofallback(tp, d) ==
    LET parts == split(tp)
        depth == Min(Len(parts), d + 1)
    IN join(SubSeq(parts, 2, depth))

\* Lines 110-116: device = "/".join(parts[1:depth]), or the topic when that
\* is empty.  parts[1:depth] holds parts[1] .. parts[depth - 1], which are
\* the second to the depth-th elements of the sequence.
extract(tp, d) ==
    LET parts == split(tp)
        depth == Min(Len(parts), d + 1)
        dev == join(SubSeq(parts, 2, depth))
    IN IF dev = << >> THEN tp ELSE dev

\* ------------------------------------------------------------- actions
Init0 ==
    /\ history = << >>
    /\ rates = << >>
    /\ lastCall = [op |-> "init", t_int |-> 0, size |-> 0, before |-> 0, fresh |-> TRUE]
    /\ nAdds = 0
    /\ lastTs = 0
    /\ mono = TRUE
    /\ evMsgs = [s \in Seconds |-> 0]
    /\ evBytes = [s \in Seconds |-> 0]
    /\ maxNow = 0
    /\ rewound = FALSE
    /\ stats_lock = NoThread
    /\ hist_lock = NoThread
    /\ topic_stats = << >>
    /\ total_messages = 0
    /\ total_bytes = 0
    /\ pc = [t \in Ingest |-> "idle"]
    /\ msg = [t \in Ingest |-> NoMsg]
    /\ reg = [t \in Ingest |-> 0]
    /\ rpc = "idle"
    /\ rep = NoReport
    /\ nReports = 0
    /\ events = << >>
    /\ hdone = {}
    /\ doneAtInvoke = {}
    /\ hmax = 0
    /\ quiet = TRUE
    /\ overlap = FALSE
    /\ prev = NoReport
    /\ topic = << >>
    /\ detail = 1
    /\ device = << >>
    /\ asked = Intervals
    /\ raised = ""
    /\ ignored = 0

\* The program started with the defaults of its arguments (lines 40-44:
\* --ignore-bridge off, --detail 1).
Init == Init0 /\ ignore_bridge = FALSE

\* The program started with or without --ignore-bridge.
InitArgs == Init0 /\ ignore_bridge \in BOOLEAN

\* traffic_history.add(ts, size)
Add(ts, size) ==
    /\ nAdds < MaxAdds
    /\ history' = add(history, ts, size)
    /\ rates' = << >>
    /\ lastCall' = [op |-> "add", t_int |-> int(ts), size |-> size,
                    before |-> Len(history), fresh |-> TRUE]
    /\ nAdds' = nAdds + 1
    /\ lastTs' = ts
    /\ mono' = (mono /\ ts >= lastTs)

\* traffic_history.get_rates(now, Intervals)
GetRates(now) ==
    /\ history' = _prune(history, int(now))
    /\ rates' = get_rates(history', int(now), Intervals)
    /\ lastCall' = [op |-> "get_rates", t_int |-> int(now), size |-> 0,
                    before |-> Len(history), fresh |-> (now >= lastTs)]
    /\ UNCHANGED <<nAdds, lastTs, mono>>

\* Bookkeeping of the events added and of the query times, for the claims
\* that speak of all events ever added.
Tally(ts, size) ==
    /\ evMsgs' = [evMsgs EXCEPT ![int(ts)] = @ + 1]
    /\ evBytes' = [evBytes EXCEPT ![int(ts)] = @ + size]
    /\ UNCHANGED <<maxNow, rewound>>

Queried(now) ==
    /\ maxNow' = Max(maxNow, int(now))
    /\ rewound' = (maxNow > int(now))
    /\ UNCHANGED <<evMsgs, evBytes>>

\* The history driven by one ingest path: add timestamps never decrease;
\* get_rates is called with any now.
OrderedAdd ==
    \E ts \in Ticks, size \in Sizes :
        ts >= lastTs /\ Add(ts, size) /\ Tally(ts, size) /\ UNCHANGED <<progVars, prev, pureVars>>
Query == \E now \in Ticks : GetRates(now) /\ Queried(now) /\ UNCHANGED <<progVars, prev, pureVars>>

Next == OrderedAdd \/ Query

Spec == Init /\ [][Next]_vars

\* The history driven by any caller: add and get_rates with any timestamps.
AnyAdd ==
    \E ts \in Ticks, size \in Sizes :
        Add(ts, size) /\ UNCHANGED <<evMsgs, evBytes, maxNow, rewound, progVars, prev, pureVars>>
AnyQuery ==
    \E now \in Ticks :
        GetRates(now) /\ UNCHANGED <<evMsgs, evBytes, maxNow, rewound, progVars, prev, pureVars>>

NextAny == AnyAdd \/ AnyQuery

SpecAny == Init /\ [][NextAny]_vars

\* Interval lists get_rates is called with: the default list (line 71),
\* which is the one print_report's call uses (line 207), or one of its
\* windows alone.  Every interval is a positive number of seconds.
IntervalLists == {<<w>> : w \in 1..(max_seconds + 1)} \cup {Intervals}

\* Line 80: msgs / seconds and bytes / seconds raise ZeroDivisionError when
\* seconds is 0, whatever the sums are.
Divides(intervals) == \A i \in 1..Len(intervals) : intervals[i] # 0

\* traffic_history.get_rates(now, intervals) with the caller's intervals:
\* the deque is pruned, then the list is returned or the division raises.
GetRatesWith(now, intervals) ==
    /\ history' = _prune(history, int(now))
    /\ asked' = intervals
    /\ IF Divides(intervals)
       THEN rates' = get_rates(history', int(now), intervals) /\ raised' = ""
       ELSE rates' = << >> /\ raised' = "ZeroDivisionError"
    /\ lastCall' = [op |-> "get_rates", t_int |-> int(now), size |-> 0,
                    before |-> Len(history), fresh |-> (now >= lastTs)]
    /\ UNCHANGED <<nAdds, lastTs, mono>>

\* The history called with any timestamps and any of the interval lists.
QueryWith ==
    \E now \in Ticks, intervals \in IntervalLists :
        /\ GetRatesWith(now, intervals)
        /\ UNCHANGED <<evMsgs, evBytes, maxNow, rewound, progVars, prev, keyVars,
                       argVars>>

NextRates ==
    \/ \E ts \in Ticks, size \in Sizes :
          Add(ts, size) /\ UNCHANGED <<evMsgs, evBytes, maxNow, rewound, progVars,
                                        prev, pureVars>>
    \/ QueryWith

SpecRates == Init /\ [][NextRates]_vars

\* on_message, lines 109-116: the display key of a topic.
Extract(tp, d) ==
    /\ topic' = tp
    /\ detail' = d
    /\ device' = extract(tp, d)
    /\ UNCHANGED <<history, rates, histGhost, progVars, prev, callVars, argVars>>

\* The extraction is a function of its two inputs alone: it is applied
\* once, to any topic and detail, from the state in which no key has been
\* computed.
NextKey == device = << >> /\ \E tp \in Topics, d \in Details : Extract(tp, d)

SpecKey == Init /\ [][NextKey]_vars

\* ------------------------------------------------- the program's threads
\* Position of key k in the dict, 0 when absent.
IdxOf(ts, k) ==
    IF \E i \in 1..Len(ts) : ts[i].key = k
    THEN CHOOSE i \in 1..Len(ts) : ts[i].key = k
    ELSE 0

\* topic_stats[k] of the defaultdict: a missing key is inserted with zeros.
Touch(ts, k) ==
    IF IdxOf(ts, k) = 0
    THEN Append(ts, [key |-> k, count |-> 0, bytes |-> 0, last_seen |-> 0])
    ELSE ts

\* "with stats_lock:" proceeds only when the lock is free.
StatsLockIgnored == TRUE
StatsLockFree == stats_lock = NoThread

\* "with self.lock:" proceeds only when the lock is free.
HistLockIgnored == TRUE
HistLockFree == hist_lock = NoThread

\* list.sort(key=count, reverse=True): descending by key value, stable, so
\* items with equal keys keep their order in the list.
SortedByCount(items, keys) ==
    LET rank(i) == Cardinality({j \in 1..Len(items) :
                        keys[j] > keys[i] \/ (keys[j] = keys[i] /\ j < i)}) + 1
    IN [r \in 1..Len(items) |->
            LET i == CHOOSE i \in 1..Len(items) : rank(i) = r
            IN [key |-> items[i], count |-> keys[i]]]

\* The section of on_message from its start to the release of stats_lock.
StatsPhase == {"stats_lock", "l122", "l123", "l124", "l125", "l126", "stats_unlock"}

Goto(t, l) == pc' = [pc EXCEPT ![t] = l]

\* x += d is a load of x, then a store of the sum.  A load changes nothing
\* another thread can see, so each step below is a store together with the
\* load of the next statement; reg[t] holds the value loaded.
Count(ts, k) == ts[IdxOf(ts, k)].count
Bytes(ts, k) == ts[IdxOf(ts, k)].bytes

\* time.time(): the wall clock.  A reading is any tick: it need not be a
\* whole second and need not be later than the reading before it.
Time(c) == c \in Ticks

\* Line 88: start_time = time.time(), the reading the ticks are counted from.
start_time == 0

\* args.base_topic, as given by --base-topic z, and the topics of the
\* messages the broker delivers: one of the bridge and one of a device.
base_topic == <<"z">>
BridgeTopic == <<"z", "/", "b", "r", "i", "d", "g", "e">>
DeviceTopic == <<"z", "/", "c">>
ProgTopics == {BridgeTopic, DeviceTopic}

\* The display keys of these topics.
Keys == {extract(tp, detail) : tp \in ProgTopics}

\* pat in str: pat is a run of consecutive characters of str.
Contains(str, pat) ==
    \E i \in 0..(Len(str) - Len(pat)) : SubSeq(str, i + 1, i + Len(pat)) = pat

\* Line 106: args.ignore_bridge and f"{args.base_topic}/bridge" in topic
IgnoredTopic(tp) ==
    ignore_bridge /\ Contains(tp, base_topic \o <<"/", "b", "r", "i", "d", "g", "e">>)

\* The network loop runs from client.loop_start() (line 259) to
\* client.loop_stop() (line 270): on_message is called only in between.
LoopRunning == rpc \notin {"refused", "stopped"}

\* on_message, lines 102-107: the message is one of the bridge and the
\* program runs with --ignore-bridge; the call returns at once.
OnMessageIgnored(t, tp) ==
    /\ pc[t] = "idle"
    /\ LoopRunning
    /\ IgnoredTopic(tp)
    /\ ignored' = ignored + 1
    /\ UNCHANGED <<history, rates, histGhost, progVars, prev, keyVars, callVars,
                   ignore_bridge>>

\* on_message, lines 102-119: the display key, the payload size, now.
OnMessage(t, tp, size, c) ==
    /\ pc[t] = "idle"
    /\ LoopRunning
    /\ ~IgnoredTopic(tp)
    /\ Time(c)
    /\ LET k == extract(tp, detail)
       IN /\ msg' = [msg EXCEPT ![t] = [device |-> k, size |-> size, now |-> c,
                                         id |-> Len(events) + 1]]
          /\ events' = Append(events, [key |-> k, size |-> size, ts |-> c,
                                          stored |-> 0])
          /\ overlap' = (overlap \/ \E u \in Ingest \ {t} :
                                        pc[u] \in StatsPhase /\ msg[u].device = k)
    /\ quiet' = (rpc \in {"idle", "raised"})
    /\ Goto(t, "stats_lock")
    /\ UNCHANGED <<history, rates, histGhost, pureVars, prev, stats_lock, hist_lock,
                   topic_stats, total_messages, total_bytes, reg, rpc, rep,
                   nReports, hdone, doneAtInvoke, hmax>>

\* The events, the call of thread t marked as the latest to run line 126.
MarkStored(t) ==
    [events EXCEPT ![msg[t].id].stored =
        Cardinality({e \in 1..Len(events) : events[e].stored > 0}) + 1]

\* Line 121: with stats_lock; line 122 loads total_messages.
StatsAcquire(t) ==
    /\ pc[t] = "stats_lock"
    /\ StatsLockFree
    /\ stats_lock' = t
    /\ reg' = [reg EXCEPT ![t] = total_messages]
    /\ Goto(t, "l122")
    /\ UNCHANGED <<history, rates, histGhost, pureVars, prev, hist_lock, topic_stats,
                   total_messages, total_bytes, msg, rpc, rep, nReports,
                   events, hdone, doneAtInvoke, hmax, quiet, overlap>>

\* Line 122 storing the value it loaded: the message is not counted.
StoreTotalMessagesSkipped(t) ==
    /\ pc[t] = "l122"
    /\ total_messages' = reg[t]
    /\ reg' = [reg EXCEPT ![t] = total_bytes]
    /\ prev' = NoReport
    /\ Goto(t, "l123")
    /\ UNCHANGED <<history, rates, histGhost, pureVars, stats_lock, hist_lock,
                   topic_stats, total_bytes, msg, rpc, rep, nReports,
                   events, hdone, doneAtInvoke, hmax, quiet, overlap>>

\* Line 122: total_messages += 1 stores; line 123 loads total_bytes.
StoreTotalMessages(t) ==
    /\ pc[t] = "l122"
    /\ total_messages' = reg[t] + 1
    /\ reg' = [reg EXCEPT ![t] = total_bytes]
    /\ prev' = NoReport
    /\ Goto(t, "l123")
    /\ UNCHANGED <<history, rates, histGhost, pureVars, stats_lock, hist_lock,
                   topic_stats, total_bytes, msg, rpc, rep, nReports,
                   events, hdone, doneAtInvoke, hmax, quiet, overlap>>

\* Line 123: total_bytes += payload_size stores; line 124 looks the key up
\* (the defaultdict inserts it when missing) and loads its count.
StoreTotalBytes(t) ==
    /\ pc[t] = "l123"
    /\ total_bytes' = reg[t] + msg[t].size
    /\ topic_stats' = Touch(topic_stats, msg[t].device)
    /\ reg' = [reg EXCEPT ![t] = Count(topic_stats', msg[t].device)]
    /\ prev' = NoReport
    /\ Goto(t, "l124")
    /\ UNCHANGED <<history, rates, histGhost, pureVars, stats_lock, hist_lock,
                   total_messages, msg, rpc, rep, nReports,
                   events, hdone, doneAtInvoke, hmax, quiet, overlap>>

\* Line 124: topic_stats[device]["count"] += 1 stores; line 125 loads bytes.
StoreCount(t) ==
    /\ pc[t] = "l124"
    /\ topic_stats' = [topic_stats EXCEPT
                        ![IdxOf(topic_stats, msg[t].device)].count = reg[t] + 1]
    /\ reg' = [reg EXCEPT ![t] = Bytes(topic_stats, msg[t].device)]
    /\ prev' = NoReport
    /\ Goto(t, "l125")
    /\ UNCHANGED <<history, rates, histGhost, pureVars, stats_lock, hist_lock,
                   total_messages, total_bytes, msg, rpc, rep, nReports,
                   events, hdone, doneAtInvoke, hmax, quiet, overlap>>

\* Line 125: topic_stats[device]["bytes"] += payload_size stores.
StoreBytes(t) ==
    /\ pc[t] = "l125"
    /\ topic_stats' = [topic_stats EXCEPT
                        ![IdxOf(topic_stats, msg[t].device)].bytes = reg[t] + msg[t].size]
    /\ reg' = [reg EXCEPT ![t] = 0]
    /\ prev' = NoReport
    /\ Goto(t, "l126")
    /\ UNCHANGED <<history, rates, histGhost, pureVars, stats_lock, hist_lock,
                   total_messages, total_bytes, msg, rpc, rep, nReports,
                   events, hdone, doneAtInvoke, hmax, quiet, overlap>>

\* Line 126 left out: last_seen keeps the value it had.
StoreLastSeenSkipped(t) ==
    /\ pc[t] = "l126"
    /\ events' = MarkStored(t)
    /\ prev' = NoReport
    /\ Goto(t, "stats_unlock")
    /\ UNCHANGED <<history, rates, histGhost, pureVars, stats_lock, hist_lock,
                   topic_stats, total_messages, total_bytes, msg, reg, rpc, rep,
                   nReports, hdone, doneAtInvoke, hmax, quiet, overlap>>

\* Line 126: topic_stats[device]["last_seen"] = now
StoreLastSeen(t) ==
    /\ pc[t] = "l126"
    /\ topic_stats' = [topic_stats EXCEPT
                        ![IdxOf(topic_stats, msg[t].device)].last_seen = msg[t].now]
    /\ events' = MarkStored(t)
    /\ prev' = NoReport
    /\ Goto(t, "stats_unlock")
    /\ UNCHANGED <<history, rates, histGhost, pureVars, stats_lock, hist_lock,
                   total_messages, total_bytes, msg, reg, rpc, rep, nReports,
                   hdone, doneAtInvoke, hmax, quiet, overlap>>

\* The section left without releasing stats_lock.
StatsReleaseForgotten(t) ==
    /\ pc[t] = "stats_unlock"
    /\ Goto(t, "hist_lock")
    /\ UNCHANGED <<history, rates, histGhost, pureVars, prev, stats_lock,
                   hist_lock, topic_stats, total_messages, total_bytes, msg, reg,
                   rpc, rep, nReports, events, hdone, doneAtInvoke, hmax, quiet,
                   overlap>>

\* The end of "with stats_lock"; line 128 then calls traffic_history.add.
StatsRelease(t) ==
    /\ pc[t] = "stats_unlock"
    /\ stats_lock' = NoThread
    /\ Goto(t, "hist_lock")
    /\ UNCHANGED <<history, rates, histGhost, pureVars, prev, hist_lock, topic_stats,
                   total_messages, total_bytes, msg, reg, rpc, rep, nReports,
                   events, hdone, doneAtInvoke, hmax, quiet, overlap>>

\* Lines 57-60 and 63: with self.lock, the msgs counter of the tail is
\* incremented, or a new bucket appended.
HistRecord(t) ==
    /\ pc[t] = "hist_lock"
    /\ HistLockFree
    /\ hist_lock' = t
    /\ IF TailMatches(history, int(msg[t].now))
       THEN history' = IncMsgs(history) /\ Goto(t, "l61")
       ELSE history' = Append(history, <<int(msg[t].now), 1, msg[t].size>>)
            /\ Goto(t, "l64")
    /\ UNCHANGED <<rates, histGhost, pureVars, prev, stats_lock, topic_stats,
                   total_messages, total_bytes, msg, reg, rpc, rep, nReports,
                   events, hdone, doneAtInvoke, hmax, quiet, overlap>>

\* Line 61: the bytes counter of the tail.
HistBytes(t) ==
    /\ pc[t] = "l61"
    /\ history' = IncBytes(history, msg[t].size)
    /\ Goto(t, "l64")
    /\ UNCHANGED <<rates, histGhost, pureVars, prev, stats_lock, hist_lock, topic_stats,
                   total_messages, total_bytes, msg, reg, rpc, rep, nReports,
                   events, hdone, doneAtInvoke, hmax, quiet, overlap>>

\* Line 64: self._prune(ts_int); the lock is released, add returns, and
\* on_message with it.
HistPrune(t) ==
    /\ pc[t] = "l64"
    /\ history' = _prune(history, int(msg[t].now))
    /\ hmax' = Max(hmax, int(msg[t].now))
    /\ hist_lock' = NoThread
    /\ hdone' = hdone \cup {msg[t].id}
    /\ msg' = [msg EXCEPT ![t] = NoMsg]
    /\ Goto(t, "idle")
    /\ UNCHANGED <<rates, histGhost, pureVars, prev, stats_lock, topic_stats,
                   total_messages, total_bytes, reg, rpc, rep, nReports,
                   events, doneAtInvoke, quiet, overlap>>

\* Lines 193-196 and 231-233: the terminal's height, 24 when there is no
\* terminal, and the number of rows that fit under the 8 header lines.
TermLines == {10, 24}
max_rows(lines) == IF lines - 9 < 1 THEN 1 ELSE lines - 9

\* Line 238: device[:40], the key cut to the width of its column.
Shown(k) == SubSeq(k, 1, Min(Len(k), 40))

\* Line 235: the rows of current_stats[:max_rows].
NumRows == Min(Len(rep.rows), rep.max_rows)

\* print_report, lines 188-197: now = time.time(), the terminal's size.
ReportStart(c, lines) ==
    /\ rpc = "idle"
    /\ Time(c)
    /\ rep' = [NoReport EXCEPT !.now = c, !.max_rows = max_rows(lines)]
    /\ rates' = << >>
    /\ quiet' = (\A t \in Ingest : pc[t] = "idle")
    /\ rpc' = "stats_lock"
    /\ UNCHANGED <<history, histGhost, pureVars, prev, stats_lock, hist_lock, topic_stats,
                   total_messages, total_bytes, pc, msg, reg, nReports,
                   events, hdone, doneAtInvoke, hmax, overlap>>

\* The snapshot that also resets the message total it has read.
ReportSnapshotReset ==
    /\ rpc = "stats_lock"
    /\ StatsLockFree
    /\ IF rep.now - start_time = 0
       THEN /\ rpc' = "raised"
            /\ rep' = NoReport
            /\ quiet' = TRUE
            /\ UNCHANGED <<stats_lock, total_messages>>
       ELSE /\ stats_lock' = Reporter
            /\ rep' = [rep EXCEPT
                        !.current_stats = [i \in 1..Len(topic_stats) |-> topic_stats[i].key],
                        !.total_msg = total_messages,
                        !.total_sz = total_bytes,
                        !.snap = topic_stats]
            /\ total_messages' = 0
            /\ rpc' = "stats_unlock"
            /\ UNCHANGED quiet
    /\ UNCHANGED <<history, rates, histGhost, pureVars, prev, hist_lock,
                   topic_stats, total_bytes, pc, msg, reg,
                   nReports, events, hdone, doneAtInvoke, hmax, overlap>>

\* Lines 199-204: with stats_lock, list(topic_stats.items()) copies the list
\* of (key, dict) pairs, not the dicts: current_stats holds the keys and the
\* live records are read through them later.  rep.snap keeps the values the
\* table holds at this instant.  Lines 201-202 divide the totals by elapsed
\* = now - start_time: when that is 0 the division raises ZeroDivisionError,
\* the with block releases the lock and print_report is left.
ReportSnapshot ==
    /\ rpc = "stats_lock"
    /\ StatsLockFree
    /\ IF rep.now - start_time = 0
       THEN /\ rpc' = "raised"
            /\ rep' = NoReport
            /\ quiet' = TRUE
            /\ UNCHANGED stats_lock
       ELSE /\ stats_lock' = Reporter
            /\ rep' = [rep EXCEPT
                        !.current_stats = [i \in 1..Len(topic_stats) |-> topic_stats[i].key],
                        !.total_msg = total_messages,
                        !.total_sz = total_bytes,
                        !.snap = topic_stats]
            /\ rpc' = "stats_unlock"
            /\ UNCHANGED quiet
    /\ UNCHANGED <<history, rates, histGhost, pureVars, prev, hist_lock,
                   topic_stats, total_messages, total_bytes, pc, msg, reg,
                   nReports, events, hdone, doneAtInvoke, hmax, overlap>>

\* The lock as the main thread leaves it when an exception takes it out of
\* a with block it holds the lock in.
Released(holder) == IF holder = Reporter THEN NoThread ELSE holder

\* Line 69: the deque after k calls of popleft.
popleft(h, k) == SubSeq(h, k + 1, Len(h))

\* Lines 68-69: the number of buckets the loop of _prune pops.
Expired(h, now_int) == Len(h) - Len(_prune(h, now_int))

\* The buckets print_report's get_rates has still to pop: those of _prune
\* (line 74) once the main thread can take self.lock, none anywhere else.
Pending ==
    IF rpc = "hist_lock" /\ HistLockFree THEN Expired(history, int(rep.now)) ELSE 0

\* Lines 261-266: a KeyboardInterrupt reaches the main thread at any point
\* of print_report or of the sleep between two reports.  The exception
\* takes the thread out of print_report, the with block it is in releasing
\* its lock, and on to the handler; the network loop is still running.
\* Raised inside the loop of _prune (lines 68-69) it leaves the deque with
\* only the buckets popped so far removed.
Interrupt ==
    /\ rpc \notin {"raised", "refused", "stopped"}
    /\ rpc' = "raised"
    /\ \E k \in 0..Pending :
          /\ history' = popleft(history, k)
          /\ hmax' = IF k > 0 THEN Max(hmax, int(rep.now)) ELSE hmax
    /\ stats_lock' = Released(stats_lock)
    /\ hist_lock' = Released(hist_lock)
    /\ rep' = NoReport
    /\ rates' = << >>
    /\ doneAtInvoke' = {}
    /\ quiet' = TRUE
    /\ UNCHANGED <<histGhost, pureVars, prev, topic_stats, total_messages,
                   total_bytes, pc, msg, reg, nReports, events, hdone, overlap>>

\* Line 258: client.connect raises before client.loop_start() (line 259) has
\* started the network loop: no message is ever received.
ConnectFails ==
    /\ rpc = "idle" /\ nReports = 0 /\ prev = NoReport
    /\ events = << >> /\ ignored = 0
    /\ rpc' = "refused"
    /\ UNCHANGED <<history, rates, histGhost, pureVars, prev, stats_lock, hist_lock,
                   topic_stats, total_messages, total_bytes, pc, msg, reg, rep,
                   nReports, events, hdone, doneAtInvoke, hmax, quiet, overlap>>

\* Lines 265-271: the handler of the exception that ended the try block has
\* run (the message printed or logged), and finally client.loop_stop() ends
\* the network loop.  An on_message call in progress runs to its end.
LoopStop ==
    /\ rpc \in {"raised", "refused"}
    /\ rpc' = "stopped"
    /\ UNCHANGED <<history, rates, histGhost, pureVars, prev, stats_lock, hist_lock,
                   topic_stats, total_messages, total_bytes, pc, msg, reg, rep,
                   nReports, events, hdone, doneAtInvoke, hmax, quiet, overlap>>

\* The steps of the main thread outside print_report.
MainStep == Interrupt \/ ConnectFails \/ LoopStop

\* The end of "with stats_lock".
ReportRelease ==
    /\ rpc = "stats_unlock"
    /\ stats_lock' = NoThread
    /\ rpc' = "hist_lock"
    /\ UNCHANGED <<history, rates, histGhost, pureVars, prev, hist_lock, topic_stats,
                   total_messages, total_bytes, pc, msg, reg, rep, nReports,
                   events, hdone, doneAtInvoke, hmax, quiet, overlap>>

\* Lines 207 and 72-81: get_rates takes self.lock, prunes and sums every
\* interval.
RatesCompute ==
    /\ rpc = "hist_lock"
    /\ HistLockFree
    /\ hist_lock' = Reporter
    /\ doneAtInvoke' = hdone
    /\ history' = _prune(history, int(rep.now))
    /\ rates' = get_rates(history', int(rep.now), Intervals)
    /\ hmax' = Max(hmax, int(rep.now))
    /\ rpc' = "hist_unlock"
    /\ UNCHANGED <<histGhost, pureVars, prev, stats_lock, topic_stats,
                   total_messages, total_bytes, pc, msg, reg, rep, nReports,
                   events, hdone, quiet, overlap>>

\* The end of "with self.lock": get_rates returns.
RatesRelease ==
    /\ rpc = "hist_unlock"
    /\ hist_lock' = NoThread
    /\ rpc' = IF rep.current_stats = << >> THEN "done" ELSE "l213_key"
    /\ UNCHANGED <<history, rates, histGhost, pureVars, prev, stats_lock, topic_stats,
                   total_messages, total_bytes, pc, msg, reg, rep, nReports,
                   events, hdone, doneAtInvoke, hmax, quiet, overlap>>

\* Line 213: sort calls the key function on each item in turn, reading the
\* live count of the item's record; after the last one the list is put in
\* order of the keys read.
SortKey ==
    /\ rpc = "l213_key"
    /\ LET i == Len(rep.keys) + 1
           k == rep.current_stats[i]
           keys == Append(rep.keys, topic_stats[IdxOf(topic_stats, k)].count)
       IN IF i < Len(rep.current_stats)
          THEN rep' = [rep EXCEPT !.keys = keys] /\ rpc' = "l213_key"
          ELSE rep' = [rep EXCEPT !.keys = keys,
                                  !.rows = SortedByCount(rep.current_stats, keys)]
               /\ rpc' = "l236"
    /\ UNCHANGED <<history, rates, histGhost, pureVars, prev, stats_lock, hist_lock,
                   topic_stats, total_messages, total_bytes, pc, msg, reg,
                   nReports, events, hdone, doneAtInvoke, hmax, quiet, overlap>>

\* The record of the row the loop of line 235 stands at.
RowData == topic_stats[IdxOf(topic_stats, rep.rows[Len(rep.printed) + 1].key)]

\* Line 236: data['last_seen'] is read from the live record of the row's key.
RowLastSeen ==
    /\ rpc = "l236"
    /\ rep' = [rep EXCEPT !.seen = RowData.last_seen]
    /\ rpc' = "l238_count"
    /\ UNCHANGED <<history, rates, histGhost, pureVars, prev, stats_lock, hist_lock,
                   topic_stats, total_messages, total_bytes, pc, msg, reg,
                   nReports, events, hdone, doneAtInvoke, hmax, quiet, overlap>>

\* Line 238: data['count'] is read.
RowCount ==
    /\ rpc = "l238_count"
    /\ rep' = [rep EXCEPT !.cnt = RowData.count]
    /\ rpc' = "l238_bytes"
    /\ UNCHANGED <<history, rates, histGhost, pureVars, prev, stats_lock, hist_lock,
                   topic_stats, total_messages, total_bytes, pc, msg, reg,
                   nReports, events, hdone, doneAtInvoke, hmax, quiet, overlap>>

\* Lines 237-239: data['bytes'] is read and the row printed; the loop goes
\* on to the next of the first max_rows rows.
PrintRow ==
    /\ rpc = "l238_bytes"
    /\ rep' = [rep EXCEPT
                !.printed = Append(@, [key |-> Shown(rep.rows[Len(rep.printed) + 1].key),
                                       last_seen |-> rep.seen,
                                       count |-> rep.cnt,
                                       bytes |-> RowData.bytes]),
                !.seen = 0,
                !.cnt = 0]
    /\ rpc' = IF Len(rep.printed) + 1 = NumRows THEN "done" ELSE "l236"
    /\ UNCHANGED <<history, rates, histGhost, pureVars, prev, stats_lock, hist_lock,
                   topic_stats, total_messages, total_bytes, pc, msg, reg,
                   nReports, events, hdone, doneAtInvoke, hmax, quiet, overlap>>

\* print_report returns; the main loop sleeps (lines 261-263).
ReportEnd ==
    /\ rpc = "done"
    /\ rpc' = "idle"
    /\ rep' = NoReport
    /\ prev' = rep
    /\ rates' = << >>
    /\ doneAtInvoke' = {}
    /\ quiet' = TRUE
    /\ nReports' = Min(nReports + 1, Max(MaxReports, MaxSeqReports))
    /\ UNCHANGED <<history, histGhost, pureVars, stats_lock, hist_lock, topic_stats,
                   total_messages, total_bytes, pc, msg, reg, events, hdone,
                   hmax, overlap>>

\* A message arrives for thread t, the clock reading one of ticks.
Receive(t, ticks) ==
    \E tp \in ProgTopics :
        \/ OnMessageIgnored(t, tp)
        \/ \E size \in Sizes, c \in ticks : OnMessage(t, tp, size, c)

IngestStep(t) ==
    \/ StatsAcquire(t)
    \/ StoreTotalMessages(t)
    \/ StoreTotalBytes(t)
    \/ StoreCount(t)
    \/ StoreBytes(t)
    \/ StoreLastSeen(t)
    \/ StatsRelease(t)
    \/ HistRecord(t)
    \/ HistBytes(t)
    \/ HistPrune(t)

ReportBegin(ticks) == \E c \in ticks, lines \in TermLines : ReportStart(c, lines)

ReportStep ==
    \/ ReportSnapshot
    \/ ReportRelease
    \/ RatesCompute
    \/ RatesRelease
    \/ SortKey
    \/ RowLastSeen
    \/ RowCount
    \/ PrintRow
    \/ ReportEnd

ProgTicks == 0..MaxProgTick
OneTicks == 0..MaxOneTick
ReportTicks == 0..MaxReportTick
FairTicks == 0..MaxFairTick

\* The calls of on_message made so far, recorded or ignored.
Calls == Len(events) + ignored

\* N on_message calls at once: ingest threads and the report loop,
\* interleaved.  A message is handled by the first thread that is free.
NextProg ==
    \/ \E t \in Ingest :
          /\ Calls < MaxMsgs
          /\ \A u \in 1..(t - 1) : pc[u] # "idle"
          /\ Receive(t, ProgTicks)
    \/ \E t \in Ingest : IngestStep(t)
    \/ nReports < MaxReports /\ ReportBegin(ProgTicks)
    \/ ReportStep
    \/ MainStep

SpecProg == InitArgs /\ [][NextProg]_vars

\* The program as it runs: the one network thread that calls on_message
\* and the report loop, interleaved.
NextOne ==
    \/ Calls < MaxOneMsgs /\ Receive(1, OneTicks)
    \/ IngestStep(1)
    \/ nReports < MaxReports /\ ReportBegin(ReportTicks)
    \/ ReportStep
    \/ MainStep

SpecOne == InitArgs /\ [][NextOne]_vars

\* The program under a fair scheduler: a thread that can take a step of a
\* call in progress eventually takes one, and the handler of an exception
\* eventually runs.  Nothing obliges a message to arrive, a report to start
\* or the program to be interrupted.  The report loop goes on for ever:
\* report cycles are not bounded.  Every payload has the size MaxSize.
NextFair ==
    \/ /\ Calls < MaxMsgs
       /\ \E tp \in ProgTopics :
            \/ OnMessageIgnored(1, tp)
            \/ \E c \in FairTicks : OnMessage(1, tp, MaxSize, c)
    \/ IngestStep(1)
    \/ ReportBegin(FairTicks)
    \/ ReportStep
    \/ MainStep

SpecFair ==
    /\ InitArgs /\ [][NextFair]_vars
    /\ WF_vars(IngestStep(1))
    /\ WF_vars(ReportStep)
    /\ WF_vars(LoopStop)

\* The locks are handed over fairly: a thread waiting for a lock that is
\* free again and again eventually takes it.
FairLocks ==
    /\ SF_vars(StatsAcquire(1))
    /\ SF_vars(HistRecord(1))
    /\ SF_vars(ReportSnapshot)
    /\ SF_vars(RatesCompute)

\* The program with its calls run one at a time: on_message is called only
\* between reports and a report starts only between calls.
NextSeq ==
    \/ rpc = "idle" /\ Calls < MaxSeqMsgs /\ Receive(1, ProgTicks)
    \/ IngestStep(1)
    \/ pc[1] = "idle" /\ nReports < MaxSeqReports /\ ReportBegin(ProgTicks)
    \/ ReportStep
    \/ MainStep

SpecSeq == InitArgs /\ [][NextSeq]_vars

\* -------------------------------------------------------------- claims
\* The buckets of h are strictly increasing by second index.
StrictlyIncreasing(h) == \A i \in 1..(Len(h) - 1) : h[i][1] < h[i + 1][1]

\* Sum of f[s] over the seconds s > cutoff: what all events ever added
\* contribute to a window.
RECURSIVE EvSumFrom(_, _, _)
EvSumFrom(f, s, cutoff) ==
    IF s > MaxSecond THEN 0
    ELSE (IF s > cutoff THEN f[s] ELSE 0) + EvSumFrom(f, s + 1, cutoff)
EvSum(f, cutoff) == EvSumFrom(f, 0, cutoff)

\* C1 (Spec): with non-decreasing add timestamps and any get_rates calls, the
\* history never holds more than max_seconds + 1 buckets.
C1_BucketBound == Len(history) <= max_seconds + 1

\* The bound is reached: max_seconds + 1 buckets after an add.
C1_Witness == lastCall.op = "add" /\ Len(history) = max_seconds + 1

\* C2 as stated (Spec): after get_rates(now) with now not earlier than the
\* last event, every window w <= max_seconds sums exactly the events ever
\* added whose second is > int(now) - w.
C2_Original ==
    (lastCall.op = "get_rates" /\ lastCall.fresh) =>
        \A i \in 1..Len(rates) :
            rates[i].seconds <= max_seconds =>
                /\ rates[i].msgs = EvSum(evMsgs, lastCall.t_int - rates[i].seconds)
                /\ rates[i].bytes = EvSum(evBytes, lastCall.t_int - rates[i].seconds)

\* No get_rates call made so far has evicted a second of the window of w
\* seconds before now_int: the latest of them, at second maxNow, evicted
\* the seconds below maxNow - max_seconds.
WindowKept(now_int, w) == maxNow - max_seconds <= now_int - w + 1

\* C2 amended (Spec): the same, provided no earlier get_rates call was made
\* with a now so much later that it has evicted part of this window.
C2_WindowSums ==
    (lastCall.op = "get_rates" /\ lastCall.fresh) =>
        \A i \in 1..Len(rates) :
            (rates[i].seconds <= max_seconds /\ WindowKept(lastCall.t_int, rates[i].seconds)) =>
                /\ rates[i].msgs = EvSum(evMsgs, lastCall.t_int - rates[i].seconds)
                /\ rates[i].bytes = EvSum(evBytes, lastCall.t_int - rates[i].seconds)

\* A window within the retention sums two buckets, with bytes, an older
\* event lies outside it, and an earlier get_rates call had a later now.
C2_Witness ==
    /\ lastCall.op = "get_rates" /\ lastCall.fresh /\ rewound
    /\ \E i \in 1..Len(rates) :
        /\ rates[i].seconds <= max_seconds
        /\ WindowKept(lastCall.t_int, rates[i].seconds)
        /\ Cardinality({j \in 1..Len(history) :
                            history[j][1] > lastCall.t_int - rates[i].seconds}) >= 2
        /\ rates[i].msgs >= 2 /\ rates[i].msgs < nAdds /\ rates[i].bytes >= 1

\* C3 as stated (Spec): every bucket is the only one for its second and holds
\* the count and the total size of all events ever added in that second.
C3_Original ==
    \A i \in 1..Len(history) :
        /\ \A j \in 1..Len(history) : j # i => history[j][1] # history[i][1]
        /\ history[i][2] = evMsgs[history[i][1]]
        /\ history[i][3] = evBytes[history[i][1]]

\* C3 amended (Spec): no second has two buckets; a bucket holds the count and
\* total size of all events of its second provided no get_rates call so far
\* had int(now) - max_seconds above that second (such a call evicts the
\* bucket, and a later event of the same second starts a new one).
C3_Coalesced ==
    \A i \in 1..Len(history) :
        /\ \A j \in 1..Len(history) : j # i => history[j][1] # history[i][1]
        /\ history[i][1] >= maxNow - max_seconds =>
                /\ history[i][2] = evMsgs[history[i][1]]
                /\ history[i][3] = evBytes[history[i][1]]

\* Two events of one second sit in one bucket, beside another bucket.
C3_Witness ==
    /\ Len(history) >= 2
    /\ \E i \in 1..Len(history) :
        /\ history[i][2] >= 2 /\ history[i][3] >= 1
        /\ history[i][1] >= maxNow - max_seconds

\* C4 as stated (SpecAny): after any calls with any timestamps the buckets
\* are strictly increasing by second index.
C4_Original == StrictlyIncreasing(history)

\* C4 amended (SpecAny): the buckets are strictly increasing as long as the
\* add timestamps have been non-decreasing.
C4_Increasing == mono => StrictlyIncreasing(history)

\* Three ordered adds, two of them coalesced, leave two buckets.
C4_Witness == mono /\ nAdds = MaxAdds /\ Len(history) >= 2 /\ Len(history) < nAdds

\* C5 as stated (SpecAny): when add(ts) or get_rates(now) returns, every
\* bucket has second index >= int(t) - max_seconds.
C5_Original ==
    lastCall.op # "init" =>
        \A i \in 1..Len(history) : history[i][1] >= lastCall.t_int - max_seconds

\* C5 amended (SpecAny): when the call returns the head bucket is inside the
\* retention window; every bucket is, when the add timestamps have been
\* non-decreasing.
C5_Retention ==
    lastCall.op # "init" =>
        /\ history # << >> => history[1][1] >= lastCall.t_int - max_seconds
        /\ mono => \A i \in 1..Len(history) :
                        history[i][1] >= lastCall.t_int - max_seconds

\* A get_rates call evicted a bucket and kept another.
C5_Witness ==
    /\ mono /\ lastCall.op = "get_rates"
    /\ lastCall.before > Len(history) /\ Len(history) >= 1

\* C6 (SpecAny): an add whose second is more than max_seconds after every
\* bucket held leaves exactly the one new bucket [int(ts), 1, size].
C6_GapEvictsAll ==
    [][ ( /\ nAdds' = nAdds + 1
          /\ \A i \in 1..Len(history) :
                history[i][1] < lastCall'.t_int - max_seconds )
        => history' = << <<lastCall'.t_int, 1, lastCall'.size>> >> ]_vars

\* An add found two buckets and left only its own new one.
C6_Witness ==
    /\ lastCall.op = "add" /\ lastCall.before >= 2
    /\ history = << <<lastCall.t_int, 1, lastCall.size>> >>

\* The ids of the events recorded for key k, and the total size of a set
\* of events.
EventsFor(k) == {e \in 1..Len(events) : events[e].key = k}

RECURSIVE SizeSum(_)
SizeSum(S) ==
    IF S = {} THEN 0
    ELSE LET e == CHOOSE x \in S : TRUE IN events[e].size + SizeSum(S \ {e})

\* C7 (SpecProg): however the calls were interleaved, once every on_message
\* call received so far has left its stats_lock section the table holds for
\* each key a count equal to the number of calls for the key and bytes equal
\* to the sum of their sizes, and the totals equal the number and total size
\* of all recorded calls; a report made after every call has returned, with
\* no call during it, captures exactly these values, holds a row for every
\* key, and every row it prints shows them.  At every step total_messages
\* is the number of calls that have stored it (line 122).
C7_NoLostUpdates ==
    /\ total_messages =
            Len(events) - Cardinality({t \in Ingest : pc[t] \in {"stats_lock", "l122"}})
    /\ (\A t \in Ingest : pc[t] \notin StatsPhase) =>
        /\ total_messages = Len(events)
        /\ total_bytes = SizeSum(1..Len(events))
        /\ \A k \in Keys :
            EventsFor(k) # {} =>
                /\ Count(topic_stats, k) = Cardinality(EventsFor(k))
                /\ Bytes(topic_stats, k) = SizeSum(EventsFor(k))
    /\ (rpc = "done" /\ quiet) =>
        /\ rep.total_msg = Len(events)
        /\ rep.total_sz = SizeSum(1..Len(events))
        /\ \A k \in Keys :
            EventsFor(k) # {} =>
                /\ \E i \in 1..Len(rep.rows) :
                    rep.rows[i].key = k /\ rep.rows[i].count = Cardinality(EventsFor(k))
                /\ rep.snap[IdxOf(rep.snap, k)].count = Cardinality(EventsFor(k))
                /\ rep.snap[IdxOf(rep.snap, k)].bytes = SizeSum(EventsFor(k))
        /\ Len(rep.printed) = NumRows
        /\ \A i \in 1..Len(rep.printed) :
            /\ rep.printed[i].key = Shown(rep.rows[i].key)
            /\ rep.printed[i].count = Cardinality(EventsFor(rep.rows[i].key))
            /\ rep.printed[i].bytes = SizeSum(EventsFor(rep.rows[i].key))

\* Two calls for one key ran at the same time and the report shows both.
C7_Witness ==
    /\ rpc = "done" /\ quiet /\ overlap
    /\ \E i \in 1..Len(rep.printed) :
        rep.printed[i].count >= 2 /\ rep.printed[i].bytes >= 1

\* C8 (SpecOne): the rows a report prints and the totals it captured are
\* the values of one instant: every row equals the record its key had when
\* the totals were captured, no row shows a count and a byte total that the
\* table never held together, and the row counts of a report that prints
\* every row add up to the total.
RECURSIVE CountSum(_)
CountSum(rows) == IF rows = << >> THEN 0 ELSE rows[1].count + CountSum(Tail(rows))

C8_Consistent ==
    rpc = "done" =>
        /\ \A i \in 1..Len(rep.printed) :
            LET was == rep.snap[IdxOf(rep.snap, rep.rows[i].key)]
            IN /\ rep.printed[i].count = was.count
               /\ rep.printed[i].bytes = was.bytes
               /\ rep.printed[i].last_seen = was.last_seen
        /\ Len(rep.printed) = Len(rep.rows) => CountSum(rep.printed) = rep.total_msg

\* C9 as stated (SpecOne): the sums get_rates has when it returns, the lock
\* still held, count whole events
\* only, and every event whose add returned before get_rates took the lock,
\* when it is in the window and in the retention window of the call, the
\* seconds from int(now) - max_seconds on.
C9_Original ==
    rpc = "hist_unlock" =>
        \A i \in 1..Len(rates) :
            LET cutoff == int(rep.now) - rates[i].seconds
                InWin == {e \in 1..Len(events) : int(events[e].ts) > cutoff}
                Req == {e \in InWin \cap doneAtInvoke :
                            int(events[e].ts) >= int(rep.now) - max_seconds}
            IN \E S \in SUBSET InWin :
                /\ Req \subseteq S
                /\ rates[i].msgs = Cardinality(S)
                /\ rates[i].bytes = SizeSum(S)

\* C9 amended (SpecOne): the sums get_rates returns count whole events only, and
\* every event whose add returned before get_rates took the lock, when it is
\* in the window and not older than the retention window of the latest
\* of the calls made on the history so far, this one included.
C9_RatesWhole ==
    rpc = "hist_unlock" =>
        \A i \in 1..Len(rates) :
            LET cutoff == int(rep.now) - rates[i].seconds
                InWin == {e \in 1..Len(events) : int(events[e].ts) > cutoff}
                Req == {e \in InWin \cap doneAtInvoke :
                            int(events[e].ts) >= hmax - max_seconds}
            IN \E S \in SUBSET InWin :
                /\ Req \subseteq S
                /\ rates[i].msgs = Cardinality(S)
                /\ rates[i].bytes = SizeSum(S)

\* get_rates has returned sums that hold an event added before it, while
\* the add of a call in progress waits for the lock.
C9_Witness ==
    /\ rpc = "hist_unlock"
    /\ \E t \in Ingest : pc[t] = "hist_lock"
    /\ doneAtInvoke # {}
    /\ \E i \in 1..Len(rates) : rates[i].msgs >= 1 /\ rates[i].bytes >= 1

\* The order of the strings that are keys: "bridge" comes before "c".
KeyRank(k) == IF k = extract(BridgeTopic, detail) THEN 1 ELSE 2

\* C10 (SpecSeq): the rows are in descending order of count, and
\* rows of equal count are in the order of their keys.
C10_Original ==
    \A i, j \in 1..Len(rep.rows) :
        i < j =>
            \/ rep.rows[i].count > rep.rows[j].count
            \/ /\ rep.rows[i].count = rep.rows[j].count
               /\ KeyRank(rep.rows[i].key) < KeyRank(rep.rows[j].key)

\* The positions of the separators of a string, and the k-th of them.
SlashAt(str) == {i \in 1..Len(str) : str[i] = "/"}
NthSlash(str, k) ==
    CHOOSE i \in SlashAt(str) : Cardinality({j \in SlashAt(str) : j <= i}) = k

\* The characters of the topic after its first separator and before its
\* (d + 1)-th one, or to the end when it has no (d + 1)-th separator.
KeyText(str, d) ==
    IF SlashAt(str) = {} \/ d = 0 THEN << >>
    ELSE LET from == NthSlash(str, 1) + 1
             to == IF Cardinality(SlashAt(str)) >= d + 1
                   THEN NthSlash(str, d + 1) - 1
                   ELSE Len(str)
         IN SubSeq(str, from, to)

\* C11 (SpecKey): the display key is the text of segments 1 up to but
\* excluding min(number of segments, detail + 1), joined with "/", and the
\* whole topic when that text is empty; depth 1 on a/b/c gives b, depth 2
\* gives b/c, and a topic of one segment gives the topic.
C11_DisplayKey ==
    /\ device = IF KeyText(topic, detail) = << >> THEN topic
                                                   ELSE KeyText(topic, detail)
    /\ (topic = <<"a", "/", "b", "/", "c">> /\ detail = 1) => device = <<"b">>
    /\ (topic = <<"a", "/", "b", "/", "c">> /\ detail = 2) => device = <<"b", "/", "c">>
    /\ SlashAt(topic) = {} => device = topic

\* The key of a/b/c at depth 2 has been computed.
C11_Witness ==
    /\ topic = <<"a", "/", "b", "/", "c">>
    /\ detail = 2
    /\ device = <<"b", "/", "c">>


\* The timestamps of the calls made for key k and the largest of them; the
\* timestamp of the latest call for k; the calls for k that have run line
\* 126 and the timestamp of the one that ran it last.
TsOf(k) == {events[e].ts : e \in EventsFor(k)}
MaxTs(k) == CHOOSE m \in TsOf(k) : \A x \in TsOf(k) : x <= m
LastTs(k) == events[CHOOSE e \in EventsFor(k) : \A x \in EventsFor(k) : x <= e].ts
StoredFor(k) == {e \in EventsFor(k) : events[e].stored > 0}
LastStoredTs(k) ==
    events[CHOOSE e \in StoredFor(k) :
                \A x \in StoredFor(k) : events[x].stored <= events[e].stored].ts
NoneRecording == \A t \in Ingest : pc[t] \notin StatsPhase

\* C12 as stated (SpecProg): once the calls made so far have recorded,
\* last_seen of every key is the largest timestamp of the key's events.
C12_Original ==
    NoneRecording =>
        \A k \in Keys :
            EventsFor(k) # {} => topic_stats[IdxOf(topic_stats, k)].last_seen = MaxTs(k)

\* C12 (SpecProg): at every moment last_seen of a key is the timestamp of
\* the call for the key that ran line 126 last; once the calls made so far
\* have recorded, that is the latest call for the key when no two calls for
\* the key were in progress at the same time, and its timestamp is the
\* largest only when no earlier call for the key read a later clock.
C12_LastSeen ==
    /\ \A k \in Keys :
        StoredFor(k) # {} =>
            topic_stats[IdxOf(topic_stats, k)].last_seen = LastStoredTs(k)
    /\ NoneRecording =>
        \A k \in Keys :
            EventsFor(k) # {} =>
                LET seen == topic_stats[IdxOf(topic_stats, k)].last_seen
                IN /\ StoredFor(k) = EventsFor(k)
                   /\ ~overlap => seen = LastTs(k)
                   /\ (~overlap /\ \A e \in EventsFor(k) : events[e].ts <= LastTs(k))
                        => seen = MaxTs(k)

\* Two calls for one key, one after the other, the second with an earlier
\* clock reading: last_seen has gone back.
C12_Witness ==
    /\ NoneRecording /\ ~overlap
    /\ \E k \in Keys :
        /\ Cardinality(TsOf(k)) = 2
        /\ topic_stats[IdxOf(topic_stats, k)].last_seen = LastTs(k)
        /\ LastTs(k) < MaxTs(k)


\* The sum of field f ("count" or "bytes") over the records of the table.
RECURSIVE TableSum(_, _)
TableSum(ts, f) == IF ts = << >> THEN 0 ELSE ts[1][f] + TableSum(Tail(ts), f)

\* C13 (SpecProg): whenever stats_lock is free, total_messages is the sum
\* of count over the keys of topic_stats and total_bytes the sum of bytes.
C13_TotalsAreSums ==
    stats_lock = NoThread =>
        /\ total_messages = TableSum(topic_stats, "count")
        /\ total_bytes = TableSum(topic_stats, "bytes")

\* Both keys have been recorded, with bytes, and the lock is free.
C13_Witness ==
    /\ stats_lock = NoThread
    /\ Len(topic_stats) = 2
    /\ total_messages = 2
    /\ total_bytes >= 1


\* C14 (SpecSeq): a report made after another with no record step between
\* them captures the same keys and totals and holds the same rows, with the
\* same counters, in the same order, and the rows both print are the same;
\* and the steps of a report leave topic_stats, total_messages and
\* total_bytes as they were.
C14_ReadIdempotent ==
    /\ (rpc = "done" /\ prev # NoReport) =>
        /\ rep.current_stats = prev.current_stats
        /\ rep.total_msg = prev.total_msg
        /\ rep.total_sz = prev.total_sz
        /\ rep.rows = prev.rows
        /\ rep.snap = prev.snap
        /\ \A i \in 1..Min(Len(rep.printed), Len(prev.printed)) :
            /\ rep.printed[i].key = prev.printed[i].key
            /\ rep.printed[i].count = prev.printed[i].count
            /\ rep.printed[i].bytes = prev.printed[i].bytes
    /\ rpc \notin {"idle", "stats_lock", "raised", "refused", "stopped"} =>
        /\ rep.snap = topic_stats
        /\ rep.total_msg = total_messages
        /\ rep.total_sz = total_bytes

\* A second report of a table with two rows has been printed, no call
\* having been made since the first.
C14_Witness ==
    /\ rpc = "done"
    /\ prev # NoReport
    /\ Len(rep.printed) = 2
    /\ rep.total_sz >= 1


\* No bucket of the deque lies in the window of w seconds before now_int.
EmptyWindow(h, now_int, w) == \A i \in 1..Len(h) : ~(h[i][1] > now_int - w)

\* C15 (SpecRates): a get_rates call returns one pair per requested
\* interval and raises nothing, and the pair of every interval whose window
\* holds no bucket (all of them when no event was recorded) is (0, 0).
C15_EmptyRates ==
    lastCall.op = "get_rates" =>
        /\ raised = ""
        /\ Len(rates) = Len(asked)
        /\ \A i \in 1..Len(rates) :
            EmptyWindow(history, lastCall.t_int, asked[i]) =>
                rates[i].msgs = 0 /\ rates[i].bytes = 0

\* get_rates has returned (0, 0) for a window that holds no bucket although
\* the deque holds one, with bytes, at the very second the window starts
\* after, and the sums of a larger window for it.
C15_Witness ==
    /\ lastCall.op = "get_rates"
    /\ Len(rates) = 3
    /\ \E j \in 1..Len(history) :
        history[j][1] = lastCall.t_int - asked[1] /\ history[j][3] >= 1
    /\ EmptyWindow(history, lastCall.t_int, asked[1])
    /\ rates[1].msgs = 0 /\ rates[1].bytes = 0
    /\ rates[2].msgs >= 1


\* Thread t takes the step from label a to label b.
Steps(t, a, b) == pc[t] = a /\ pc'[t] = b

\* C16 (SpecProg): in every step every key of topic_stats stays in it, no
\* count, bytes, total_messages or total_bytes decreases, and the steps of
\* on_message that record an event raise total_messages and the key's count
\* by exactly 1 and total_bytes and the key's bytes by the event's size.
C16_Monotone ==
    [][/\ Len(topic_stats') >= Len(topic_stats)
       /\ \A i \in 1..Len(topic_stats) :
            /\ topic_stats'[i].key = topic_stats[i].key
            /\ topic_stats'[i].count >= topic_stats[i].count
            /\ topic_stats'[i].bytes >= topic_stats[i].bytes
       /\ total_messages' >= total_messages
       /\ total_bytes' >= total_bytes
       /\ \A t \in Ingest :
            /\ Steps(t, "l122", "l123") => total_messages' = total_messages + 1
            /\ Steps(t, "l123", "l124") => total_bytes' = total_bytes + msg[t].size
            /\ Steps(t, "l124", "l125") =>
                    Count(topic_stats', msg[t].device) = Count(topic_stats, msg[t].device) + 1
            /\ Steps(t, "l125", "l126") =>
                    Bytes(topic_stats', msg[t].device)
                        = Bytes(topic_stats, msg[t].device) + msg[t].size
      ]_vars

\* A key has been recorded twice, with bytes, by calls in progress at the
\* same time.
C16_Witness ==
    /\ overlap
    /\ \E i \in 1..Len(topic_stats) : topic_stats[i].count = 2 /\ topic_stats[i].bytes = 2


\* Every on_message call that has started returns, and every report cycle
\* that has started ends: print_report returns, or it is left by an
\* exception and the loop is stopped.
AllComplete ==
    /\ \A t \in Ingest : (pc[t] # "idle") ~> (pc[t] = "idle")
    /\ (rpc # "idle") ~> (rpc \in {"idle", "stopped"})

\* No thread holds stats_lock and the history's lock together.
NeverBothLocks ==
    \A t \in Ingest \cup {Reporter} : ~(stats_lock = t /\ hist_lock = t)

HeadRemoved(h1, h2) ==
    \E k \in 0..(Len(h1) - 1) : h2 = SubSeq(h1, k + 1, Len(h1))

\* C18 (SpecAny): an add of second s and size z whose second differs from
\* the tail's (an earlier second included) leaves the deque with one new
\* bucket <<s, 1, z>> at the tail and the other buckets as they were; an add
\* whose second is the tail's adds 1 and z to the tail's counters and
\* leaves the other buckets as they were; beyond that, buckets are only
\* removed from the head.
C18_AddFrame ==
    [][nAdds' = nAdds + 1 =>
        LET s == lastCall'.t_int
            z == lastCall'.size
            n == Len(history)
        IN IF n > 0 /\ history[n][1] = s
           THEN HeadRemoved([history EXCEPT ![n] = <<s, history[n][2] + 1,
                                                     history[n][3] + z>>],
                            history')
           ELSE HeadRemoved(history \o << <<s, 1, z>> >>, history')
      ]_vars

\* An add with an earlier second than the tail's has appended its bucket
\* behind a bucket that holds two events.
C18_Witness ==
    /\ lastCall.op = "add"
    /\ Len(history) = 2
    /\ history[2] = <<lastCall.t_int, 1, lastCall.size>>
    /\ history[2][1] < history[1][1]
    /\ history[1][2] = 2


\* get_rates of the report in progress has returned.
RatesReturned ==
    rpc \in {"hist_unlock", "l213_key", "l236", "l238_count", "l238_bytes", "done"}

\* C19 as stated (SpecOne): in a report, no window's message count exceeds
\* the total message count the report captured.
C19_Original ==
    RatesReturned => \A i \in 1..Len(rates) : rates[i].msgs <= rep.total_msg

\* C19 (SpecOne): in a report, no window's message count exceeds the
\* value total_messages has when get_rates returns, nor the total the
\* report captured when no on_message call was in progress during the
\* report; and the events in the history never outnumber total_messages.
C19_RatesWithinTotal ==
    /\ SumIf(history, 2, -1) <= total_messages
    /\ RatesReturned =>
        \A i \in 1..Len(rates) :
            /\ rates[i].msgs <= total_messages
            /\ quiet => rates[i].msgs <= rep.total_msg

\* A report whose rates count a message that its captured total does not.
C19_Witness ==
    /\ RatesReturned
    /\ ~quiet
    /\ \E i \in 1..Len(rates) :
        rates[i].msgs > rep.total_msg /\ rates[i].msgs <= total_messages

====
